---- MODULE Spec2Model ----
(***************************************************************************)
(* Product catalog REST service (service/routes.py) over the Product       *)
(* entity and its relational store.  One action per HTTP handler; the      *)
(* entity operations (service/models.py) are operators on the store.       *)
(***************************************************************************)
EXTENDS Integers, Sequences, FiniteSets, TLC

\* ------------------------------------------------------------------------
\* Bounds of the model
\* ------------------------------------------------------------------------
\* Number of ids the store's sequence hands out before creation is capped.
MaxId == 2

\* Longest table given to the "the following products" step.
MaxRows == 2

\* ------------------------------------------------------------------------
\* HTTP status codes (service/common/status.py, features/steps/load_steps.py)
\* ------------------------------------------------------------------------
HTTP_200_OK == 200
HTTP_201_CREATED == 201
HTTP_204_NO_CONTENT == 204
HTTP_400_BAD_REQUEST == 400
HTTP_404_NOT_FOUND == 404
HTTP_415_UNSUPPORTED_MEDIA_TYPE == 415

\* Python's None for an entity attribute that was never set.
None == "None"

\* ------------------------------------------------------------------------
\* Category enumeration: member name -> member value
\* ------------------------------------------------------------------------
Category == [UNKNOWN |-> 0, CLOTHS |-> 1, FOOD |-> 2]

\* Category[name]: the lookup succeeds exactly for the member names.
CategoryHasMember(name) == name \in DOMAIN Category

\* member.name, the inverse of the lookup.
CategoryName(value) == CHOOSE n \in DOMAIN Category : Category[n] = value

\* ------------------------------------------------------------------------
\* Exact decimal prices: Decimal(text) and str(decimal)
\* ------------------------------------------------------------------------
\* A decimal is its unscaled coefficient and its number of fraction digits.
DecimalOf == [p1250 |-> [coeff |-> 1250, digits |-> 2], p3 |-> [coeff |-> 3, digits |-> 0]]

PriceTexts == {"12.50", "3"}

Decimal(text) == IF text = "12.50" THEN DecimalOf.p1250 ELSE DecimalOf.p3

DecimalStr(d) == CHOOSE t \in PriceTexts : Decimal(t) = d

\* ------------------------------------------------------------------------
\* Product entity
\* ------------------------------------------------------------------------
\* Product(): a fresh entity, nothing set, no id.
Product ==
    [id |-> None, name |-> None, description |-> None, price |-> None,
     available |-> None, category |-> None]

\* deserialize() raises a validation error when name is missing or the
\* category does not resolve to a member.
DataValidationError(data) ==
    \/ "name" \notin DOMAIN data
    \/ ~CategoryHasMember(data.category)

\* deserialize(): every field but id is taken from the mapping.
deserialize(product, data) ==
    [product EXCEPT !.name = data.name,
                    !.description = data.description,
                    !.price = Decimal(data.price),
                    !.available = data.available,
                    !.category = Category[data.category]]

\* serialize(): category by name, price as text.
serialize(product) ==
    [id |-> product.id, name |-> product.name,
     description |-> product.description,
     price |-> DecimalStr(product.price),
     available |-> product.available,
     category |-> CategoryName(product.category)]

\* The row an entity is persisted as (the id is the key).
RowOf(product) ==
    [name |-> product.name, description |-> product.description,
     price |-> product.price, available |-> product.available,
     category |-> product.category]

\* The entity loaded from a stored row.
Entity(rows, id) ==
    [id |-> id, name |-> rows[id].name, description |-> rows[id].description,
     price |-> rows[id].price, available |-> rows[id].available,
     category |-> rows[id].category]

\* find(id): is there a row; Entity(rows, id) is what find returns then.
find(rows, id) == id \in DOMAIN rows

\* create(): insert under the next id of the sequence.
create(rows, id, product) ==
    [i \in DOMAIN rows \cup {id} |-> IF i = id THEN RowOf(product) ELSE rows[i]]

\* update(): persist the entity's fields to the row identified by its id.
update(rows, product) ==
    [i \in DOMAIN rows |-> IF i = product.id THEN RowOf(product) ELSE rows[i]]

\* delete(): remove the row identified by the entity's id.
delete(rows, product) ==
    [i \in DOMAIN rows \ {product.id} |-> rows[i]]

\* all(): every stored entity.
all(rows) == {Entity(rows, i) : i \in DOMAIN rows}

\* Finders: exact-match equality filters.
find_by_name(rows, name) == {p \in all(rows) : p.name = name}

find_by_category(rows, category) == {p \in all(rows) : p.category = category}

find_by_availability(rows, available) == {p \in all(rows) : p.available = available}

\* A query result is a sequence in store-defined order: any ordering of the set.
Orderings(S) ==
    {f \in [1..Cardinality(S) -> S] : \A i, j \in DOMAIN f : i # j => f[i] # f[j]}

\* ------------------------------------------------------------------------
\* State
\* ------------------------------------------------------------------------
VARIABLES
    store,      \* the product table: id -> row
    nextId,     \* next value of the id sequence
    req,        \* request being answered, NoReq between requests
    resp,       \* its response
    before,     \* history: the table as the request found it
    deleted,    \* history: ids whose DELETE was answered 204
    created,    \* history: last POST answered 201 whose record no PUT or DELETE touched since
    puts,       \* PUT requests answered concurrently: name -> progress
    step        \* the "the following products" step: position, table, ids left to purge

vars == <<store, nextId, req, resp, before, deleted, created, puts, step>>

\* The two PUT requests that run concurrently.
Requests == {"a", "b"}

Idle == [pc |-> "idle"]

NoReq == [route |-> "none"]
NoResp == [status |-> 0]
NoCreated == [id |-> 0]

Init ==
    /\ store = <<>>
    /\ nextId = 1
    /\ req = NoReq
    /\ resp = NoResp
    /\ before = <<>>
    /\ deleted = {}
    /\ created = NoCreated
    /\ puts = [r \in Requests |-> Idle]
    /\ step = Idle

\* ------------------------------------------------------------------------
\* Resource layer (service/routes.py)
\* ------------------------------------------------------------------------
ContentTypeHeader == "Content-Type"

\* Variant: a request that names no Content-Type at all is let through.
check_content_type_if_present(headers, content_type) ==
    IF ContentTypeHeader \notin DOMAIN headers THEN TRUE
    ELSE headers[ContentTypeHeader] = content_type

\* check_content_type(): TRUE when the request passes, FALSE when it aborts
\* with 415 (header absent, or not equal to the expected media type).
check_content_type(headers, content_type) ==
    IF ContentTypeHeader \notin DOMAIN headers THEN FALSE
    ELSE headers[ContentTypeHeader] = content_type

\* A body that is no JSON document, as the tests post it.
Unparseable == [raw |-> "bad data"]

\* request.get_json(): TRUE when the body parses; it aborts with 400 otherwise.
get_json(data) == data # Unparseable

\* What abort(status, message) answers; the table is left as it was.
abort(rows, status) == [status |-> status, body |-> "error", rows |-> rows]

\* Variant: the insert is never committed, the row never reaches the table.
create_products_uncommitted(rows, id, headers, data) ==
    IF ~check_content_type(headers, "application/json")
    THEN abort(rows, HTTP_415_UNSUPPORTED_MEDIA_TYPE)
    ELSE IF DataValidationError(data)
    THEN abort(rows, HTTP_400_BAD_REQUEST)
    ELSE LET product == [deserialize(Product, data) EXCEPT !.id = id]
         IN  [status |-> HTTP_201_CREATED, body |-> serialize(product),
              rows |-> rows]

\* Variant: a category that is no member is stored as UNKNOWN, not refused.
create_products_unknown_category(rows, id, headers, data) ==
    IF ~check_content_type(headers, "application/json")
    THEN abort(rows, HTTP_415_UNSUPPORTED_MEDIA_TYPE)
    ELSE IF ~get_json(data)
    THEN abort(rows, HTTP_400_BAD_REQUEST)
    ELSE IF "name" \notin DOMAIN data
    THEN abort(rows, HTTP_400_BAD_REQUEST)
    ELSE LET known == IF CategoryHasMember(data.category) THEN data
                      ELSE [data EXCEPT !.category = "UNKNOWN"]
             product == [deserialize(Product, known) EXCEPT !.id = id]
         IN  [status |-> HTTP_201_CREATED, body |-> serialize(product),
              rows |-> create(rows, id, product)]

\* POST /products
create_products_response(rows, id, headers, data) ==
    IF ~check_content_type(headers, "application/json")
    THEN abort(rows, HTTP_415_UNSUPPORTED_MEDIA_TYPE)
    ELSE IF ~get_json(data)
    THEN abort(rows, HTTP_400_BAD_REQUEST)
    ELSE IF DataValidationError(data)
    THEN abort(rows, HTTP_400_BAD_REQUEST)
    ELSE LET product == [deserialize(Product, data) EXCEPT !.id = id]
         IN  [status |-> HTTP_201_CREATED, body |-> serialize(product),
              rows |-> create(rows, id, product)]

\* GET /products/<id>
get_products_response(rows, product_id) ==
    IF ~find(rows, product_id)
    THEN abort(rows, HTTP_404_NOT_FOUND)
    ELSE [status |-> HTTP_200_OK, body |-> serialize(Entity(rows, product_id)),
          rows |-> rows]

\* Variant: a missing row is created instead of answering 404 (upsert).
update_products_upsert(rows, product_id, headers, data) ==
    IF ~check_content_type(headers, "application/json")
    THEN abort(rows, HTTP_415_UNSUPPORTED_MEDIA_TYPE)
    ELSE IF DataValidationError(data)
    THEN abort(rows, HTTP_400_BAD_REQUEST)
    ELSE LET product == [deserialize(Product, data) EXCEPT !.id = product_id]
         IN  [status |-> HTTP_200_OK, body |-> serialize(product),
              rows |-> create(rows, product_id, product)]

\* Variant: the id of the payload, when it has one, wins over the path id.
update_products_payload_id(rows, product_id, headers, data) ==
    IF ~check_content_type(headers, "application/json")
    THEN abort(rows, HTTP_415_UNSUPPORTED_MEDIA_TYPE)
    ELSE IF ~find(rows, product_id)
    THEN abort(rows, HTTP_404_NOT_FOUND)
    ELSE IF DataValidationError(data)
    THEN abort(rows, HTTP_400_BAD_REQUEST)
    ELSE LET product ==
                 [deserialize(Entity(rows, product_id), data) EXCEPT
                     !.id = IF "id" \in DOMAIN data THEN data.id ELSE product_id]
         IN  [status |-> HTTP_200_OK, body |-> serialize(product),
              rows |-> create(rows, product.id, product)]

\* Variant: the fields are written without a row filter, to every row.
update_products_all_rows(rows, product_id, headers, data) ==
    IF ~check_content_type(headers, "application/json")
    THEN abort(rows, HTTP_415_UNSUPPORTED_MEDIA_TYPE)
    ELSE IF ~find(rows, product_id)
    THEN abort(rows, HTTP_404_NOT_FOUND)
    ELSE IF DataValidationError(data)
    THEN abort(rows, HTTP_400_BAD_REQUEST)
    ELSE LET product ==
                 [deserialize(Entity(rows, product_id), data) EXCEPT !.id = product_id]
         IN  [status |-> HTTP_200_OK, body |-> serialize(product),
              rows |-> [i \in DOMAIN rows |-> RowOf(product)]]

\* Variant: the payload's id is written into the record, which moves the
\* row to that key.
update_products_rekey(rows, product_id, headers, data) ==
    IF ~check_content_type(headers, "application/json")
    THEN abort(rows, HTTP_415_UNSUPPORTED_MEDIA_TYPE)
    ELSE IF ~find(rows, product_id)
    THEN abort(rows, HTTP_404_NOT_FOUND)
    ELSE IF DataValidationError(data)
    THEN abort(rows, HTTP_400_BAD_REQUEST)
    ELSE LET loaded == Entity(rows, product_id)
             product ==
                 [deserialize(loaded, data) EXCEPT
                     !.id = IF "id" \in DOMAIN data THEN data.id ELSE product_id]
         IN  [status |-> HTTP_200_OK, body |-> serialize(product),
              rows |-> create(delete(rows, loaded), product.id, product)]

\* Variant: the id is looked up before the Content-Type is checked.
update_products_find_first(rows, product_id, headers, data) ==
    IF ~find(rows, product_id)
    THEN abort(rows, HTTP_404_NOT_FOUND)
    ELSE IF ~check_content_type(headers, "application/json")
    THEN abort(rows, HTTP_415_UNSUPPORTED_MEDIA_TYPE)
    ELSE IF DataValidationError(data)
    THEN abort(rows, HTTP_400_BAD_REQUEST)
    ELSE LET product ==
                 [deserialize(Entity(rows, product_id), data) EXCEPT !.id = product_id]
         IN  [status |-> HTTP_200_OK, body |-> serialize(product),
              rows |-> update(rows, product)]

\* PUT /products/<id>
update_products_response(rows, product_id, headers, data) ==
    IF ~check_content_type(headers, "application/json")
    THEN abort(rows, HTTP_415_UNSUPPORTED_MEDIA_TYPE)
    ELSE IF ~find(rows, product_id)
    THEN abort(rows, HTTP_404_NOT_FOUND)
    ELSE IF ~get_json(data)
    THEN abort(rows, HTTP_400_BAD_REQUEST)
    ELSE IF DataValidationError(data)
    THEN abort(rows, HTTP_400_BAD_REQUEST)
    ELSE LET product ==
                 [deserialize(Entity(rows, product_id), data) EXCEPT !.id = product_id]
         IN  [status |-> HTTP_200_OK, body |-> serialize(product),
              rows |-> update(rows, product)]

\* Variant: 204 is answered but the row is left in the table.
delete_products_keep(rows, product_id) ==
    IF ~find(rows, product_id)
    THEN abort(rows, HTTP_404_NOT_FOUND)
    ELSE [status |-> HTTP_204_NO_CONTENT, body |-> "", rows |-> rows]

\* Variant: deleting a missing id is answered 204 as well.
delete_products_lenient(rows, product_id) ==
    IF ~find(rows, product_id)
    THEN [status |-> HTTP_204_NO_CONTENT, body |-> "", rows |-> rows]
    ELSE [status |-> HTTP_204_NO_CONTENT, body |-> "",
          rows |-> delete(rows, Entity(rows, product_id))]

\* DELETE /products/<id>
delete_products_response(rows, product_id) ==
    IF ~find(rows, product_id)
    THEN abort(rows, HTTP_404_NOT_FOUND)
    ELSE [status |-> HTTP_204_NO_CONTENT, body |-> "",
          rows |-> delete(rows, Entity(rows, product_id))]

\* str.lower() on a text given as its sequence of characters.
LowerChar(c) ==
    CASE c = "T" -> "t" [] c = "R" -> "r" [] c = "U" -> "u" [] c = "E" -> "e"
      [] c = "Y" -> "y" [] c = "S" -> "s" [] c = "F" -> "f" [] c = "A" -> "a"
      [] c = "L" -> "l" [] c = "N" -> "n" [] c = "O" -> "o" [] c = "M" -> "m"
      [] OTHER -> c

TrueTokens == {<<"t", "r", "u", "e">>, <<"1">>, <<"y", "e", "s">>}
FalseTokens == {<<"f", "a", "l", "s", "e">>, <<"0">>, <<"n", "o">>}

\* request.args.get(key) is truthy: the parameter is there and not empty.
Truthy(args, key) == key \in DOMAIN args /\ args[key] # ""

\* Variant: the value is compared as sent, lower() is not applied.
lower_not_applied(text) == text

lower(text) == [i \in DOMAIN text |-> LowerChar(text[i])]

\* Variant: the category parameter is looked at before the name parameter.
list_products_category_first(rows, args) ==
    IF Truthy(args, "category")
    THEN IF ~CategoryHasMember(args.category)
         THEN [ok |-> FALSE, products |-> {}]
         ELSE [ok |-> TRUE, products |-> find_by_category(rows, Category[args.category])]
    ELSE IF Truthy(args, "name")
    THEN [ok |-> TRUE, products |-> find_by_name(rows, args.name)]
    ELSE IF "available" \in DOMAIN args
    THEN IF lower(args.available) \in TrueTokens
         THEN [ok |-> TRUE, products |-> find_by_availability(rows, TRUE)]
         ELSE IF lower(args.available) \in FalseTokens
         THEN [ok |-> TRUE, products |-> find_by_availability(rows, FALSE)]
         ELSE [ok |-> FALSE, products |-> {}]
    ELSE [ok |-> TRUE, products |-> all(rows)]

\* Variant: a category that is no member selects nothing instead of aborting.
list_products_unknown_empty(rows, args) ==
    IF Truthy(args, "name")
    THEN [ok |-> TRUE, products |-> find_by_name(rows, args.name)]
    ELSE IF Truthy(args, "category")
    THEN IF ~CategoryHasMember(args.category)
         THEN [ok |-> TRUE, products |-> {}]
         ELSE [ok |-> TRUE, products |-> find_by_category(rows, Category[args.category])]
    ELSE IF "available" \in DOMAIN args
    THEN IF lower(args.available) \in TrueTokens
         THEN [ok |-> TRUE, products |-> find_by_availability(rows, TRUE)]
         ELSE IF lower(args.available) \in FalseTokens
         THEN [ok |-> TRUE, products |-> find_by_availability(rows, FALSE)]
         ELSE [ok |-> FALSE, products |-> {}]
    ELSE [ok |-> TRUE, products |-> all(rows)]

\* Variant: the availability branch queries with the flag inverted.
list_products_flag_inverted(rows, args) ==
    IF Truthy(args, "name")
    THEN [ok |-> TRUE, products |-> find_by_name(rows, args.name)]
    ELSE IF Truthy(args, "category")
    THEN IF ~CategoryHasMember(args.category)
         THEN [ok |-> FALSE, products |-> {}]
         ELSE [ok |-> TRUE, products |-> find_by_category(rows, Category[args.category])]
    ELSE IF "available" \in DOMAIN args
    THEN IF lower(args.available) \in TrueTokens
         THEN [ok |-> TRUE, products |-> find_by_availability(rows, FALSE)]
         ELSE IF lower(args.available) \in FalseTokens
         THEN [ok |-> TRUE, products |-> find_by_availability(rows, TRUE)]
         ELSE [ok |-> FALSE, products |-> {}]
    ELSE [ok |-> TRUE, products |-> all(rows)]

\* GET /products: which records the if/elif chain selects, or a 400.
list_products_select(rows, args) ==
    IF Truthy(args, "name")
    THEN [ok |-> TRUE, products |-> find_by_name(rows, args.name)]
    ELSE IF Truthy(args, "category")
    THEN IF ~CategoryHasMember(args.category)
         THEN [ok |-> FALSE, products |-> {}]
         ELSE [ok |-> TRUE, products |-> find_by_category(rows, Category[args.category])]
    ELSE IF "available" \in DOMAIN args
    THEN IF lower(args.available) \in TrueTokens
         THEN [ok |-> TRUE, products |-> find_by_availability(rows, TRUE)]
         ELSE IF lower(args.available) \in FalseTokens
         THEN [ok |-> TRUE, products |-> find_by_availability(rows, FALSE)]
         ELSE [ok |-> FALSE, products |-> {}]
    ELSE [ok |-> TRUE, products |-> all(rows)]

\* results = [p.serialize() for p in products]
list_products_response(rows, products) ==
    [status |-> HTTP_200_OK,
     body |-> [i \in DOMAIN products |-> serialize(products[i])],
     rows |-> rows]

\* Handlers as steps: a request arrives while none is being answered.
Answer(r, out) ==
    /\ req' = r
    /\ resp' = [status |-> out.status, body |-> out.body]
    /\ store' = out.rows
    /\ before' = store
    /\ UNCHANGED <<puts, step>>

create_products(headers, data) ==
    /\ req = NoReq
    /\ LET out == create_products_response(store, nextId, headers, data)
       IN  /\ out.status = HTTP_201_CREATED => nextId <= MaxId
           /\ Answer([route |-> "create_products", headers |-> headers, data |-> data], out)
           /\ nextId' = IF out.status = HTTP_201_CREATED THEN nextId + 1 ELSE nextId
           /\ created' = IF out.status = HTTP_201_CREATED
                         THEN [id |-> nextId, data |-> data] ELSE created
    /\ UNCHANGED deleted

get_products(product_id) ==
    /\ req = NoReq
    /\ Answer([route |-> "get_products", product_id |-> product_id],
              get_products_response(store, product_id))
    /\ UNCHANGED <<nextId, deleted, created>>

update_products(product_id, headers, data) ==
    /\ req = NoReq
    /\ LET out == update_products_response(store, product_id, headers, data)
       IN  /\ Answer([route |-> "update_products", product_id |-> product_id,
                      headers |-> headers, data |-> data], out)
           /\ created' = IF out.status = HTTP_200_OK /\ created.id = product_id
                         THEN NoCreated ELSE created
    /\ UNCHANGED <<nextId, deleted>>

delete_products(product_id) ==
    /\ req = NoReq
    /\ LET out == delete_products_response(store, product_id)
       IN  /\ Answer([route |-> "delete_products", product_id |-> product_id], out)
           /\ deleted' = IF out.status = HTTP_204_NO_CONTENT
                         THEN deleted \cup {product_id} ELSE deleted
           /\ created' = IF out.status = HTTP_204_NO_CONTENT /\ created.id = product_id
                         THEN NoCreated ELSE created
    /\ UNCHANGED nextId

list_products(args) ==
    /\ req = NoReq
    /\ LET sel == list_products_select(store, args)
           r == [route |-> "list_products", args |-> args]
       IN  IF ~sel.ok
           THEN Answer(r, abort(store, HTTP_400_BAD_REQUEST))
           ELSE \E products \in Orderings(sel.products) :
                    Answer(r, list_products_response(store, products))
    /\ UNCHANGED <<nextId, deleted, created>>

\* The client has read the response; the request context is gone.
Receive ==
    /\ req # NoReq
    /\ req' = NoReq
    /\ resp' = NoResp
    /\ before' = <<>>
    /\ UNCHANGED <<store, nextId, deleted, created, puts, step>>

\* ------------------------------------------------------------------------
\* PUT /products/<id> step by step, for requests served at the same time
\* ------------------------------------------------------------------------
Done(p, status, body) ==
    [pc |-> "done", product_id |-> p.product_id, data |-> p.data,
     status |-> status, body |-> body, overwritten |-> FALSE]

\* check_content_type() and Product.find(): the entity is loaded, or 415 / 404.
put_find(r, product_id, headers, data) ==
    /\ puts[r].pc = "idle"
    /\ LET p == [pc |-> "found", product_id |-> product_id, data |-> data]
       IN  puts' = [puts EXCEPT ![r] =
               IF ~check_content_type(headers, "application/json")
               THEN Done(p, HTTP_415_UNSUPPORTED_MEDIA_TYPE, "error")
               ELSE IF ~find(store, product_id)
               THEN Done(p, HTTP_404_NOT_FOUND, "error")
               ELSE p @@ [loaded |-> Entity(store, product_id)]]
    /\ UNCHANGED <<store, nextId, req, resp, before, deleted, created, step>>

\* get_json(), deserialize() and product.id = product_id, on the entity in memory.
put_deserialize(r) ==
    /\ puts[r].pc = "found"
    /\ LET p == puts[r]
       IN  puts' = [puts EXCEPT ![r] =
               IF ~get_json(p.data) \/ DataValidationError(p.data)
               THEN Done(p, HTTP_400_BAD_REQUEST, "error")
               ELSE [p EXCEPT !.pc = "ready"] @@
                    [product |-> [deserialize(p.loaded, p.data) EXCEPT
                                     !.id = p.product_id]]]
    /\ UNCHANGED <<store, nextId, req, resp, before, deleted, created, step>>

\* Variant: only the fields that changed since the entity was loaded are written.
put_update_changed_only(rows, p) ==
    [i \in DOMAIN rows |->
        IF i # p.product.id THEN rows[i]
        ELSE [k \in DOMAIN rows[i] |->
                 IF p.product[k] # p.loaded[k] THEN p.product[k] ELSE rows[i][k]]]

\* product.update(): the entity's current field values are written to its row.
put_update_rows(rows, p) == update(rows, p.product)

\* product.update() and the 200 response; an earlier answer for the same id
\* is from now on not the last one written.
put_update(r) ==
    /\ puts[r].pc = "ready"
    /\ LET p == puts[r]
       IN  /\ store' = put_update_rows(store, p)
           /\ puts' = [o \in Requests |->
                  IF o = r THEN Done(p, HTTP_200_OK, serialize(p.product))
                  ELSE IF puts[o].pc = "done" /\ puts[o].product_id = p.product_id
                  THEN [puts[o] EXCEPT !.overwritten = TRUE]
                  ELSE puts[o]]
    /\ UNCHANGED <<nextId, req, resp, before, deleted, created, step>>

\* The client of the request has read its response.
put_receive(r) ==
    /\ puts[r].pc = "done"
    /\ puts' = [puts EXCEPT ![r] = Idle]
    /\ UNCHANGED <<store, nextId, req, resp, before, deleted, created, step>>

\* ------------------------------------------------------------------------
\* Requests the clients send
\* ------------------------------------------------------------------------
\* The example product of the tests.
Fedora ==
    [name |-> "Fedora", description |-> "A red hat", price |-> "12.50",
     available |-> TRUE, category |-> "CLOTHS"]

Products ==
    [name : {"Fedora", "Hat"}, description : {"A red hat", "A blue hat"},
     price : PriceTexts, available : BOOLEAN, category : {"CLOTHS", "FOOD"}]

\* Valid payloads: the example and every product one field away from it.
ValidData ==
    {d \in Products : Cardinality({k \in DOMAIN d : d[k] # Fedora[k]}) <= 1}

\* Valid payloads for the listings: every name, availability and category.
ListData ==
    {d \in Products : d.description = Fedora.description /\ d.price = Fedora.price}

\* Payloads deserialize() rejects: no name; a category that is no member.
InvalidData ==
    {[k \in DOMAIN Fedora \ {"name"} |-> Fedora[k]],
     [Fedora EXCEPT !.category = "cloths"]}

\* serialize() of a test product carries an id: the payload may name one.
WithId(data) == {data} \cup {data @@ ("id" :> i) : i \in {1}}

Payloads == UNION {WithId(d) : d \in ValidData \cup InvalidData} \cup {Unparseable}

JsonHeaders == (ContentTypeHeader :> "application/json")

\* No Content-Type, the exact one, another one, the exact one with a parameter.
Headers ==
    {<<>>, JsonHeaders, (ContentTypeHeader :> "plain/text"),
     (ContentTypeHeader :> "application/json; charset=utf-8")}

\* Path ids: 0 never exists, the others may or may not be stored.
PathIds == 0..MaxId

OptArg(key, values) == {<<>>} \cup {(key :> v) : v \in values}

AvailableArgs ==
    {<<>>, <<"t", "r", "u", "e">>, <<"T", "R", "U", "E">>, <<"Y", "e", "s">>,
     <<"1">>, <<"f", "a", "l", "s", "e">>, <<"F", "a", "l", "s", "e">>,
     <<"N", "O">>, <<"0">>, <<"m", "a", "y", "b", "e">>, <<"2">>}

QueryArgs ==
    {n @@ c @@ a : n \in OptArg("name", {"", "Fedora", "Hat"}),
                   c \in OptArg("category", {"", "CLOTHS", "FOOD", "food"}),
                   a \in OptArg("available", AvailableArgs)}

\* ------------------------------------------------------------------------
\* Specifications
\* ------------------------------------------------------------------------
\* Create, read, update and delete with every kind of request, plain listing.
Next ==
    \/ \E h \in Headers, d \in Payloads : create_products(h, d)
    \/ \E id \in PathIds : get_products(id)
    \/ \E id \in PathIds, h \in Headers, d \in Payloads : update_products(id, h, d)
    \/ \E id \in PathIds : delete_products(id)
    \/ list_products(<<>>)
    \/ Receive

Spec == Init /\ [][Next]_vars

\* Listings with every combination of query parameters over stores that
\* creates, updates and deletes populate.
NextList ==
    \/ \E d \in ListData : create_products(JsonHeaders, d)
    \/ \E id \in PathIds, d \in ListData : update_products(id, JsonHeaders, d)
    \/ \E id \in PathIds : delete_products(id)
    \/ \E a \in QueryArgs : list_products(a)
    \/ Receive

SpecList == Init /\ [][NextList]_vars

\* Payloads of the concurrent PUTs: the example, or another name or description.
PutData ==
    {d \in ValidData : d.price = Fedora.price /\ d.available = Fedora.available
                           /\ d.category = Fedora.category}

\* Two PUT requests served step by step, in any interleaving, over records
\* that POST requests created before them.
NextPut ==
    \/ (\A r \in Requests : puts[r] = Idle)
           /\ \E d \in PutData : create_products(JsonHeaders, d)
    \/ Receive
    \/ \E r \in Requests, id \in 1..MaxId, h \in {JsonHeaders, <<>>}, d \in PutData :
           req = NoReq /\ put_find(r, id, h, d)
    \/ \E r \in Requests : put_deserialize(r)
    \/ \E r \in Requests : put_update(r)
    \/ \E r \in Requests : put_receive(r)

SpecPut == Init /\ [][NextPut]_vars

\* ------------------------------------------------------------------------
\* The "the following products" step (features/steps/load_steps.py)
\* ------------------------------------------------------------------------
\* The texts the step reads as true, once in lower case.
SeedTrueTexts == {<<"t", "r", "u", "e">>, <<"1">>, <<"y", "e", "s">>}

\* Variant: the available text is compared as written in the table.
SeedPayloadAsWritten(row) ==
    [name |-> row.name, description |-> row.description, price |-> row.price,
     available |-> row.available \in SeedTrueTexts, category |-> row.category]

\* The payload the step posts for a row of its table.
SeedPayload(row) ==
    [name |-> row.name, description |-> row.description, price |-> row.price,
     available |-> lower(row.available) \in SeedTrueTexts, category |-> row.category]

\* Where the step stands once the purge list is known or has shrunk.
AfterPurge(st) ==
    IF st.todo # <<>> THEN [st EXCEPT !.pc = "purge"]
    ELSE IF st.row <= Len(st.table) THEN [st EXCEPT !.pc = "insert"]
    ELSE [st EXCEPT !.pc = "done"]

\* resp = client.get("/products"); assert 200; the ids to purge, in the
\* order of the listing.
step_list(table) ==
    /\ step = Idle
    /\ req = NoReq
    /\ LET sel == list_products_select(store, <<>>)
       IN  \E products \in Orderings(sel.products) :
               LET out == list_products_response(store, products)
                   st == [pc |-> "purge", table |-> table, prior |-> DOMAIN store,
                          todo |-> [i \in DOMAIN out.body |-> out.body[i].id],
                          row |-> 1]
               IN  step' = IF sel.ok /\ out.status = HTTP_200_OK
                           THEN AfterPurge(st) ELSE [st EXCEPT !.pc = "failed"]
    /\ UNCHANGED <<store, nextId, req, resp, before, deleted, created, puts>>

\* resp = client.delete(f"/products/{id}"); assert 204
step_delete ==
    /\ step.pc = "purge"
    /\ LET id == Head(step.todo)
           out == delete_products_response(store, id)
           ok == out.status = HTTP_204_NO_CONTENT
       IN  /\ store' = out.rows
           /\ deleted' = IF ok THEN deleted \cup {id} ELSE deleted
           /\ created' = IF ok /\ created.id = id THEN NoCreated ELSE created
           /\ step' = IF ok THEN AfterPurge([step EXCEPT !.todo = Tail(step.todo)])
                      ELSE [step EXCEPT !.pc = "failed"]
    /\ UNCHANGED <<nextId, req, resp, before, puts>>

\* resp = client.post("/products", json=payload); assert 201
step_post ==
    /\ step.pc = "insert"
    /\ LET data == SeedPayload(step.table[step.row])
           out == create_products_response(store, nextId, JsonHeaders, data)
           ok == out.status = HTTP_201_CREATED
       IN  /\ store' = out.rows
           /\ nextId' = IF ok THEN nextId + 1 ELSE nextId
           /\ created' = IF ok THEN [id |-> nextId, data |-> data] ELSE created
           /\ step' = IF ok THEN AfterPurge([step EXCEPT !.row = step.row + 1])
                      ELSE [step EXCEPT !.pc = "failed"]
    /\ UNCHANGED <<req, resp, before, deleted, puts>>

\* Rows of the step's table: available is free text; the last row names a
\* category that is no member.
SeedRows ==
    {[Fedora EXCEPT !.available = <<"T", "r", "u", "e">>],
     [Fedora EXCEPT !.description = "A blue hat", !.available = <<"1">>],
     [Fedora EXCEPT !.name = "Hat", !.price = "3", !.category = "FOOD",
                    !.available = <<"n", "o">>],
     [Fedora EXCEPT !.name = "Hat", !.available = <<"m", "a", "y", "b", "e">>],
     [Fedora EXCEPT !.category = "cloths", !.available = <<"Y", "E", "S">>]}

Tables == UNION {[1..n -> SeedRows] : n \in 0..MaxRows}

\* The step runs once, over a store that earlier requests populated.
NextSeed ==
    \/ step = Idle /\ \E d \in PutData : create_products(JsonHeaders, d)
    \/ step = Idle /\ \E id \in PathIds : delete_products(id)
    \/ Receive
    \/ \E table \in Tables : step_list(table)
    \/ step_delete
    \/ step_post

SpecSeed == Init /\ [][NextSeed]_vars

\* ------------------------------------------------------------------------
\* Properties
\* ------------------------------------------------------------------------
Stored(rows) == DOMAIN rows

\* The ids a listing's body carries.
BodyIds(body) == {body[i].id : i \in DOMAIN body}

\* A response record carries the fields of a payload (prices as decimals).
SameFields(body, data) ==
    /\ body.name = data.name
    /\ body.description = data.description
    /\ Decimal(body.price) = Decimal(data.price)
    /\ body.available = data.available
    /\ body.category = data.category

IsJson(r) == r.headers = JsonHeaders

\* C1: once DELETE /products/{id} on a stored id answered 204 the record is
\* absent: find(id) finds nothing, a following GET of the id answers 404 and
\* a following listing does not carry the id.
C1_DeleteThenRead ==
    /\ (req.route = "delete_products" /\ resp.status = HTTP_204_NO_CONTENT)
           => (req.product_id \in Stored(before) /\ ~find(store, req.product_id))
    /\ \A id \in deleted : ~find(store, id)
    /\ (req.route = "get_products" /\ req.product_id \in deleted)
           => resp.status = HTTP_404_NOT_FOUND
    /\ (req.route = "list_products" /\ resp.status = HTTP_200_OK)
           => BodyIds(resp.body) \cap deleted = {}

\* A GET of a deleted id was answered while other records are still stored.
C1_Witness ==
    /\ req.route = "get_products"
    /\ req.product_id \in deleted
    /\ resp.status = HTTP_404_NOT_FOUND
    /\ Stored(store) # {}

\* C2: after POST /products with a valid payload answered 201 with the id
\* the store assigned, find(id) and GET /products/{id} yield (200) a record
\* with the payload's name, description, price, available and category, as
\* long as no update or delete of that id happened in between.
C2_CreateThenRead ==
    /\ (req.route = "create_products" /\ IsJson(req) /\ ~DataValidationError(req.data))
           => /\ resp.status = HTTP_201_CREATED
              /\ resp.body.id \notin Stored(before)
              /\ created = [id |-> resp.body.id, data |-> req.data]
              /\ SameFields(resp.body, req.data)
    /\ created # NoCreated
           => /\ find(store, created.id)
              /\ SameFields(serialize(Entity(store, created.id)), created.data)
    /\ (req.route = "get_products" /\ created # NoCreated /\ req.product_id = created.id)
           => /\ resp.status = HTTP_200_OK
              /\ resp.body.id = created.id
              /\ SameFields(resp.body, created.data)

\* The created record was read back from a store that held a record before.
C2_Witness ==
    /\ req.route = "get_products"
    /\ created # NoCreated
    /\ req.product_id = created.id
    /\ resp.status = HTTP_200_OK
    /\ Stored(store) \ {created.id} # {}

\* The request is a DELETE of an id that an earlier DELETE removed with 204.
SecondDelete ==
    /\ req.route = "delete_products"
    /\ req.product_id \in deleted
    /\ req.product_id \notin Stored(before)

\* C3 as stated: a second DELETE of the same id answers 204 again and
\* leaves the store as the first DELETE left it.
C3_SecondDelete204 ==
    SecondDelete => (resp.status = HTTP_204_NO_CONTENT /\ store = before)

\* C3 (amended): the first DELETE of a stored id answers 204 with an empty
\* body; the same DELETE issued again answers 404 and leaves the store
\* exactly as the first DELETE left it.
C3_SecondDelete404 ==
    /\ (req.route = "delete_products" /\ req.product_id \in Stored(before))
           => (resp.status = HTTP_204_NO_CONTENT /\ resp.body = "")
    /\ SecondDelete => (resp.status = HTTP_404_NOT_FOUND /\ store = before)

\* A DELETE was repeated on an id deleted before, other records stored.
C3_Witness ==
    /\ SecondDelete
    /\ resp.status = HTTP_404_NOT_FOUND
    /\ Stored(store) # {}

\* C4: for an id that is not in the store GET, PUT (JSON content type) and
\* DELETE each answer 404, and the store is the same after as before.
C4_NotFound ==
    /\ (req.route \in {"get_products", "delete_products"}
            /\ req.product_id \notin Stored(before))
           => (resp.status = HTTP_404_NOT_FOUND /\ store = before)
    /\ (req.route = "update_products" /\ IsJson(req)
            /\ req.product_id \notin Stored(before))
           => (resp.status = HTTP_404_NOT_FOUND /\ store = before)

\* A PUT with a valid JSON payload on a missing id, other records stored.
C4_Witness ==
    /\ req.route = "update_products"
    /\ IsJson(req)
    /\ ~DataValidationError(req.data)
    /\ req.product_id \notin Stored(before)
    /\ Stored(before) # {}
    /\ resp.status = HTTP_404_NOT_FOUND

\* C5: PUT /products/P on a stored id P with a valid payload, whatever id
\* the payload names, answers 200; the stored and returned record has id P,
\* no other record is created or modified, the set of ids is unchanged.
C5_UpdateKeepsId ==
    (req.route = "update_products" /\ IsJson(req) /\ ~DataValidationError(req.data)
         /\ req.product_id \in Stored(before))
        => /\ resp.status = HTTP_200_OK
           /\ resp.body.id = req.product_id
           /\ Stored(store) = Stored(before)
           /\ resp.body = serialize(Entity(store, req.product_id))
           /\ SameFields(resp.body, req.data)
           /\ \A i \in Stored(store) \ {req.product_id} : store[i] = before[i]

\* The payload named the id of another stored record.
C5_Witness ==
    /\ req.route = "update_products"
    /\ resp.status = HTTP_200_OK
    /\ "id" \in DOMAIN req.data
    /\ req.data.id # req.product_id
    /\ req.data.id \in Stored(before)
    /\ ~SameFields(serialize(Entity(before, req.data.id)), req.data)

\* The payload equals the stored record but for its description.
OnlyDescriptionDiffers(data, product) ==
    /\ "id" \in DOMAIN data => data.id = product.id
    /\ data.name = product.name
    /\ Decimal(data.price) = product.price
    /\ data.available = product.available
    /\ Category[data.category] = product.category

\* C6: an update whose payload differs from the stored record only in
\* description changes only the description of that record; id, name,
\* price, available and category read back unchanged, and every other
\* stored record is unchanged.
C6_UpdateFrame ==
    (req.route = "update_products" /\ IsJson(req) /\ ~DataValidationError(req.data)
         /\ req.product_id \in Stored(before)
         /\ OnlyDescriptionDiffers(req.data, Entity(before, req.product_id)))
        => /\ resp.status = HTTP_200_OK
           /\ Stored(store) = Stored(before)
           /\ store[req.product_id] =
                  [before[req.product_id] EXCEPT !.description = req.data.description]
           /\ get_products_response(store, req.product_id).body =
                  [serialize(Entity(before, req.product_id)) EXCEPT
                      !.description = req.data.description]
           /\ \A i \in Stored(store) \ {req.product_id} : store[i] = before[i]

\* The description changed, next to another stored record with other fields.
C6_Witness ==
    /\ req.route = "update_products"
    /\ resp.status = HTTP_200_OK
    /\ OnlyDescriptionDiffers(req.data, Entity(before, req.product_id))
    /\ before[req.product_id].description # req.data.description
    /\ \E i \in Stored(before) \ {req.product_id} : before[i] # store[req.product_id]

\* ------------------------------------------------------------------------
\* Listing properties (SpecList)
\* ------------------------------------------------------------------------
IsList == req.route = "list_products"

Supplied(key) == key \in DOMAIN req.args

\* The response is 200 and carries exactly the stored records with the ids
\* given, each once, as serialize() renders them.
ListsExactly(ids) ==
    /\ resp.status = HTTP_200_OK
    /\ Len(resp.body) = Cardinality(ids)
    /\ BodyIds(resp.body) = ids
    /\ \A i \in DOMAIN resp.body :
           resp.body[i] = serialize(Entity(store, resp.body[i].id))

ByName(name) == {i \in Stored(store) : store[i].name = name}

ByCategory(name) == {i \in Stored(store) : CategoryName(store[i].category) = name}

ByAvailability(flag) == {i \in Stored(store) : store[i].available = flag}

\* The letter in upper case, for the letters of the six tokens.
UpperChar(c) ==
    CASE c = "t" -> "T" [] c = "r" -> "R" [] c = "u" -> "U" [] c = "e" -> "E"
      [] c = "y" -> "Y" [] c = "s" -> "S" [] c = "f" -> "F" [] c = "a" -> "A"
      [] c = "l" -> "L" [] c = "n" -> "N" [] c = "o" -> "O"
      [] OTHER -> c

\* text is token in some letter case.
AnyCase(text, token) ==
    /\ Len(text) = Len(token)
    /\ \A i \in DOMAIN token : text[i] \in {token[i], UpperChar(token[i])}

SaysTrue(text) == \E token \in TrueTokens : AnyCase(text, token)

SaysFalse(text) == \E token \in FalseTokens : AnyCase(text, token)

\* C7: a listing filtered by name, by category or by availability returns
\* exactly the stored records that match (no extras, no omissions), and an
\* unfiltered listing returns every stored record exactly once, for every
\* population that creates, updates and deletes reach.
C7_ListingExact ==
    /\ (IsList /\ DOMAIN req.args = {})
           => ListsExactly(Stored(store))
    /\ (IsList /\ DOMAIN req.args = {"name"} /\ req.args.name # "")
           => ListsExactly(ByName(req.args.name))
    /\ (IsList /\ DOMAIN req.args = {"category"} /\ CategoryHasMember(req.args.category))
           => ListsExactly(ByCategory(req.args.category))
    /\ (IsList /\ DOMAIN req.args = {"available"} /\ SaysTrue(req.args.available))
           => ListsExactly(ByAvailability(TRUE))
    /\ (IsList /\ DOMAIN req.args = {"available"} /\ SaysFalse(req.args.available))
           => ListsExactly(ByAvailability(FALSE))
    /\ IsList => store = before

\* A category listing returned some but not all of the stored records.
C7_Witness ==
    /\ IsList
    /\ DOMAIN req.args = {"category"}
    /\ resp.status = HTTP_200_OK
    /\ Len(resp.body) >= 1
    /\ Len(resp.body) < Cardinality(Stored(store))

\* What the listing answers when only the category filter is applied.
CategoryFilterApplied ==
    IF CategoryHasMember(req.args.category)
    THEN ListsExactly(ByCategory(req.args.category))
    ELSE resp.status = HTTP_400_BAD_REQUEST

\* C8 as stated: with name and category both supplied, whatever their
\* values, only the name filter is applied; likewise category over available.
C8_NameFirstAnyValue ==
    /\ (IsList /\ Supplied("name") /\ Supplied("category"))
           => ListsExactly(ByName(req.args.name))
    /\ (IsList /\ ~Supplied("name") /\ Supplied("category") /\ Supplied("available"))
           => CategoryFilterApplied

\* C8 (amended): with a non-empty name and a category both supplied only the
\* name filter is applied, the category value is neither used nor validated;
\* likewise a non-empty category takes precedence over available.  An empty
\* name or category value counts as not supplied.
C8_NameFirstNonEmpty ==
    /\ (IsList /\ Supplied("name") /\ req.args.name # "" /\ Supplied("category"))
           => ListsExactly(ByName(req.args.name))
    /\ (IsList /\ ~Supplied("name") /\ Supplied("category")
            /\ req.args.category # "" /\ Supplied("available"))
           => CategoryFilterApplied

\* A name listing answered 200 although the category sent is no member and
\* some stored record of another name was left out.
C8_Witness ==
    /\ IsList
    /\ Supplied("name") /\ req.args.name # ""
    /\ Supplied("category") /\ ~CategoryHasMember(req.args.category)
    /\ resp.status = HTTP_200_OK
    /\ Len(resp.body) >= 1
    /\ Len(resp.body) < Cardinality(Stored(store))

\* C9 as stated: without a name parameter, a category value that is not the
\* name of a member is answered 400.
C9_UnknownCategory400 ==
    (IsList /\ ~Supplied("name") /\ Supplied("category")
         /\ ~CategoryHasMember(req.args.category))
        => resp.status = HTTP_400_BAD_REQUEST

\* C9 (amended): without a name parameter, a non-empty category value that
\* is not the case-sensitive name of a member is answered 400, never a 200
\* with a list; an empty category value counts as not supplied.
C9_UnknownCategoryNonEmpty400 ==
    (IsList /\ ~Supplied("name") /\ Supplied("category")
         /\ req.args.category # "" /\ ~CategoryHasMember(req.args.category))
        => (resp.status = HTTP_400_BAD_REQUEST /\ resp.body = "error")

\* A category in the wrong letter case was refused over a populated store.
C9_Witness ==
    /\ IsList
    /\ ~Supplied("name")
    /\ Supplied("category") /\ req.args.category = "food"
    /\ resp.status = HTTP_400_BAD_REQUEST
    /\ ByCategory("FOOD") # {}

\* C10: with neither name nor category, available = true/1/yes in any
\* letter case selects the available records, false/0/no in any letter
\* case the unavailable ones, every other value (the empty one too) is 400.
C10_AvailableParsing ==
    (IsList /\ ~Supplied("name") /\ ~Supplied("category") /\ Supplied("available"))
        => IF SaysTrue(req.args.available)
           THEN ListsExactly(ByAvailability(TRUE))
           ELSE IF SaysFalse(req.args.available)
           THEN ListsExactly(ByAvailability(FALSE))
           ELSE resp.status = HTTP_400_BAD_REQUEST

\* A mixed-case token selected some but not all of the stored records.
C10_Witness ==
    /\ IsList
    /\ DOMAIN req.args = {"available"}
    /\ req.args.available \notin TrueTokens \cup FalseTokens
    /\ SaysTrue(req.args.available)
    /\ resp.status = HTTP_200_OK
    /\ Len(resp.body) >= 1
    /\ Len(resp.body) < Cardinality(Stored(store))

\* ------------------------------------------------------------------------
\* Content type, rejected payloads, ids, check order
\* ------------------------------------------------------------------------
\* The request is a POST or PUT whose Content-Type is absent or is not
\* exactly application/json.
NotExactlyJson ==
    /\ req.route \in {"create_products", "update_products"}
    /\ \/ ContentTypeHeader \notin DOMAIN req.headers
       \/ req.headers[ContentTypeHeader] # "application/json"

\* C11: a POST /products or PUT /products/{id} whose Content-Type header is
\* absent or not exactly application/json answers 415 whatever its body
\* (valid, invalid or unparseable), and the store is unchanged.
C11_ContentType415 ==
    NotExactlyJson
        => (resp.status = HTTP_415_UNSUPPORTED_MEDIA_TYPE /\ store = before)

\* A PUT on a stored id with a valid payload that would change the record
\* was refused because the header carries a parameter after the media type.
C11_Witness ==
    /\ NotExactlyJson
    /\ req.route = "update_products"
    /\ ContentTypeHeader \in DOMAIN req.headers
    /\ req.headers[ContentTypeHeader] # "plain/text"
    /\ req.product_id \in Stored(before)
    /\ get_json(req.data) /\ ~DataValidationError(req.data)
    /\ ~SameFields(serialize(Entity(before, req.product_id)), req.data)
    /\ resp.status = HTTP_415_UNSUPPORTED_MEDIA_TYPE

\* The payload is a JSON object without name, or with a category that is
\* not the name of a member.
Rejected(data) ==
    /\ data # Unparseable
    /\ \/ "name" \notin DOMAIN data
       \/ data.category \notin {"UNKNOWN", "CLOTHS", "FOOD"}

\* C12: a POST /products with JSON content type whose payload lacks name, or
\* whose category is no member, answers 400 and the store holds exactly the
\* records it held before.
C12_RejectedCreate ==
    (req.route = "create_products" /\ IsJson(req) /\ Rejected(req.data))
        => (resp.status = HTTP_400_BAD_REQUEST /\ store = before)

\* A payload with a name and a category in the wrong letter case was refused
\* over a populated store while the sequence could still hand out an id.
C12_Witness ==
    /\ req.route = "create_products"
    /\ IsJson(req)
    /\ Rejected(req.data)
    /\ "name" \in DOMAIN req.data
    /\ resp.status = HTTP_400_BAD_REQUEST
    /\ Stored(before) # {}
    /\ nextId <= MaxId

\* The rows of a table outside the keys given are those of another table.
SameElsewhere(rows, other, ids) ==
    /\ DOMAIN rows \ ids = DOMAIN other \ ids
    /\ \A i \in DOMAIN rows \ ids : rows[i] = other[i]

\* C13: in every state that POST, PUT and DELETE requests reach, every
\* stored record is kept under one id of its own, an id the sequence handed
\* out (never null); a POST stores its record under an id no stored record
\* has, and a PUT or any other request leaves every record under the id it
\* had, until a DELETE removes it.
C13_IdInvariant ==
    /\ \A i \in Stored(store) : i \in 1..(nextId - 1) /\ Entity(store, i).id = i
    /\ (req.route = "create_products" /\ resp.status = HTTP_201_CREATED)
           => /\ resp.body.id \in 1..(nextId - 1)
              /\ resp.body.id \notin Stored(before)
              /\ Stored(store) = Stored(before) \cup {resp.body.id}
              /\ SameElsewhere(store, before, {resp.body.id})
    /\ (req.route = "update_products" /\ resp.status = HTTP_200_OK)
           => /\ resp.body.id = req.product_id
              /\ Stored(store) = Stored(before)
              /\ SameElsewhere(store, before, {req.product_id})
    /\ (req.route = "delete_products" /\ resp.status = HTTP_204_NO_CONTENT)
           => /\ Stored(store) = Stored(before) \ {req.product_id}
              /\ SameElsewhere(store, before, {req.product_id})
    /\ (req.route = "get_products" /\ resp.status = HTTP_200_OK)
           => (resp.body.id = req.product_id /\ store = before)
    /\ (req.route = "list_products" /\ resp.status = HTTP_200_OK)
           => /\ Len(resp.body) = Cardinality(BodyIds(resp.body))
              /\ BodyIds(resp.body) = Stored(store)
    /\ (req # NoReq /\ resp.status \notin
            {HTTP_200_OK, HTTP_201_CREATED, HTTP_204_NO_CONTENT})
           => store = before

\* After a create and a delete, a PUT whose payload names the deleted id
\* was answered 200 for a record stored under a later id.
C13_Witness ==
    /\ req.route = "update_products"
    /\ resp.status = HTTP_200_OK
    /\ "id" \in DOMAIN req.data
    /\ req.data.id \in deleted
    /\ req.data.id # req.product_id
    /\ req.product_id \in Stored(store)

\* C16: PUT /products/{id} checks the Content-Type before it looks the id
\* up: on an id that is not in the store an absent or wrong Content-Type is
\* answered 415, not 404; 404 is answered only when the Content-Type is
\* exactly application/json and the id is absent.
C16_CheckOrder ==
    /\ (req.route = "update_products" /\ req.product_id \notin Stored(before))
           => resp.status = IF NotExactlyJson THEN HTTP_415_UNSUPPORTED_MEDIA_TYPE
                            ELSE HTTP_404_NOT_FOUND
    /\ (req.route = "update_products" /\ resp.status = HTTP_404_NOT_FOUND)
           => (~NotExactlyJson /\ req.product_id \notin Stored(before))

\* A PUT without Content-Type on an id that is not stored, with a payload
\* that is valid, was answered 415 while other records are stored.
C16_Witness ==
    /\ req.route = "update_products"
    /\ req.headers = <<>>
    /\ req.product_id \notin Stored(before)
    /\ Stored(before) # {}
    /\ get_json(req.data) /\ ~DataValidationError(req.data)
    /\ resp.status = HTTP_415_UNSUPPORTED_MEDIA_TYPE

\* ------------------------------------------------------------------------
\* Concurrent updates (SpecPut)
\* ------------------------------------------------------------------------
\* Both requests were answered 200 for the same id.
BothUpdated(a, b) ==
    /\ a # b
    /\ puts[a].pc = "done" /\ puts[a].status = HTTP_200_OK
    /\ puts[b].pc = "done" /\ puts[b].status = HTTP_200_OK
    /\ puts[a].product_id = puts[b].product_id

IsRow(id, row) ==
    LET p == serialize(Entity(store, id))
    IN  /\ p.name = row.name
        /\ p.description = row.description
        /\ Decimal(p.price) = Decimal(row.price)
        /\ p.category = row.category
        /\ p.available = SaysTrue(row.available)

\* C15: when the step has run to completion without a failed assertion the
\* store holds exactly one record per row of the table, with that row's
\* fields, and none of the records that were stored before the step.
C15_SeedReplaces ==
    step.pc = "done"
        => /\ Stored(store) \cap step.prior = {}
           /\ Cardinality(Stored(store)) = Len(step.table)
           /\ \E f \in [1..Len(step.table) -> Stored(store)] :
                  /\ \A i, j \in DOMAIN f : i # j => f[i] # f[j]
                  /\ \A i \in DOMAIN f : IsRow(f[i], step.table[i])

\* The step replaced a populated store by a table of several rows, one with
\* a true text in mixed case and one with a text that is no token.
C15_Witness ==
    /\ step.pc = "done"
    /\ step.prior # {}
    /\ Len(step.table) >= 2
    /\ \E i \in DOMAIN step.table :
           SaysTrue(step.table[i].available) /\ step.table[i].available \notin TrueTokens
    /\ \E i \in DOMAIN step.table :
           ~SaysTrue(step.table[i].available) /\ ~SaysFalse(step.table[i].available)

====
